---- MODULE Spec2Model ----
(***************************************************************************)
(* Help-desk SaaS, monolithic API server: the ticket routes                *)
(* (src/server/routes/tickets.js), the user routes (src/unnamed/part_000), *)
(* the auth routes (src/unnamed/part_002), the admin routes                *)
(* (src/server/routes/admin.js), the subscription routes                   *)
(* (src/unnamed/part_001) and the auth middleware (src/server/server.js);  *)
(* and the serverless tickets function (src/netlify/functions/branding.js).*)
(*                                                                         *)
(* Identifiers (Mongo ObjectIds) are positive naturals handed out by       *)
(* counters and never reused; 0 stands for null / undefined.  A request    *)
(* body field that is absent is the string Undefined.  Ticket.updatedAt    *)
(* and the ordering of the ticket list by it are not modelled.             *)
(***************************************************************************)
EXTENDS Naturals, Integers, Sequences, FiniteSets, TLC

VARIABLES
  users,       \* the User collection: id -> document
  tokens,      \* the token each user holds: id -> payload signed at register / login
  orgs,        \* the Organization collection: id -> document
  nextUser,    \* the next User id
  tickets,     \* the Ticket collection: id -> document
  responses,   \* the TicketResponse collection: a set of documents
  nextTicket,  \* the next Ticket id
  clock,       \* Date.now(): the number of responses inserted so far
  last,        \* the last request handled and its answer
  reqs,        \* the requests in flight (concurrent specification)
  aux,         \* bookkeeping of the concurrent run
  plans,       \* the PricingPlan collection: id -> document
  subscriptions \* the Subscription collection: a set of documents

userVars == <<users, tokens, orgs, nextUser, plans, subscriptions>>
ticketVars == <<tickets, responses, nextTicket, clock>>
concVars == <<reqs, aux>>
vars == <<users, tokens, orgs, nextUser, tickets, responses, nextTicket,
          clock, last, reqs, aux, plans, subscriptions>>

\* ------------------------------------------------------------------ bounds
MaxTickets == 1
MaxResponses == 2
MaxReqs == 2
MaxUsers == 2

\* ------------------------------------------------------------- vocabulary
Null == 0
Undefined == "undefined"

Statuses == {"open", "in_progress", "on_hold", "pending", "resolved", "archived"}
Priorities == {"low", "medium", "high", "urgent"}
StaffRoles == {"admin", "agent"}
ClosedStatuses == {"resolved", "archived"}

\* The token payload signed at register / login: what auth puts in req.user.
Payload(uid, u) ==
  [id |-> uid, role |-> u.role, organizationId |-> u.organizationId]

\* The directory the ticket routes run against: two organizations, each
\* registered by its admin (parentUserId null), with subusers created by it.
SeedUsers ==
  1 :> [role |-> "admin",    organizationId |-> 1, parentUserId |-> Null, isActive |-> TRUE, email |-> 1]
  @@ 2 :> [role |-> "agent",    organizationId |-> 1, parentUserId |-> 1, isActive |-> TRUE, email |-> 2]
  @@ 3 :> [role |-> "customer", organizationId |-> 1, parentUserId |-> 1, isActive |-> TRUE, email |-> 3]
  @@ 4 :> [role |-> "admin",    organizationId |-> 2, parentUserId |-> Null, isActive |-> TRUE, email |-> 4]
  @@ 5 :> [role |-> "customer", organizationId |-> 2, parentUserId |-> 4, isActive |-> TRUE, email |-> 5]

SeedTokens == [uid \in DOMAIN SeedUsers |-> Payload(uid, SeedUsers[uid])]

\* The Organization schema's defaults.
NewOrganization ==
  [subscriptionStatus |-> "trial", subscriptionTier |-> "basic",
   stripeCustomerId |-> Null, stripeSubscriptionId |-> Null, maxUsers |-> 5]

SeedOrgs == 1 :> NewOrganization @@ 2 :> NewOrganization

\* The actors of a request: the holders of the tokens issued so far.  A token
\* stays valid when its user's role changes or the user is deleted.
Actors == {tokens[uid] : uid \in DOMAIN tokens}

NoActor == [id |-> Null, role |-> "none", organizationId |-> Null]

\* ------------------------------------------------------------- middleware
\* authorize that also lets agents through.
authorizeOrAgent(roles, actor) == actor.role \in roles \cup {"agent"}

\* authorize that lets every role through.
authorizeAnyRole(roles, actor) == TRUE

\* authorize(...roles): 403 unless the token's role is one of roles.
authorize(roles, actor) == actor.role \in roles

\* ------------------------------------------------------- mongoose helpers
\* toString() of a path holding an ObjectId is the id's hex string; of a
\* populated path it is the inspect() text of the referenced document, which
\* is never the hex string of an id.  req.user.id is a hex string.
OidString(id) == <<"oid", id>>
DocString(id) == <<"doc", id>>

\* populate('createdBy', ...): the path holds the user document instead of
\* the ObjectId, or null when the user no longer exists.
PopulatedIsNull(uid) == uid \notin DOMAIN users

PopulatedToString(uid) == DocString(uid)

\* document.save() of a loaded document: an update that sets the paths
\* changed since the document was loaded (snap) and leaves the others as
\* they are stored now.
SaveDoc(tks, t, snap, doc) ==
  [tks EXCEPT ![t] =
     [f \in DOMAIN tks[t] |-> IF doc[f] # snap[f] THEN doc[f] ELSE tks[t][f]]]

\* The responses of a ticket sorted by createdAt ascending.
RECURSIVE SortByCreatedAt(_)
SortByCreatedAt(S) ==
  IF S = {} THEN <<>>
  ELSE LET first == CHOOSE r \in S : \A q \in S : r.createdAt <= q.createdAt
       IN <<first>> \o SortByCreatedAt(S \ {first})

\* ------------------------------------------------------------- the result
\* What a handler leaves: the HTTP status code, the stores, and the body.
Result(code, tks, rsps, list, rlist) ==
  [code |-> code, tickets |-> tks, responses |-> rsps,
   list |-> list, rlist |-> rlist]

Deny(code) == Result(code, tickets, responses, {}, <<>>)

\* ----------------------------------------------------------- POST /tickets
CreateValid(body) ==
  /\ body.title # Undefined /\ body.title # ""
  /\ body.description # Undefined /\ body.description # ""
  /\ body.priority = Undefined \/ body.priority \in Priorities
  /\ body.category # Undefined /\ body.category # ""

\* The Ticket schema's defaults for the paths the route does not set.
TicketDefaults == [status |-> "open", assignedTo |-> Null, resolvedAt |-> Null]

\* NewTicket that takes createdBy from the body when the body names one.
NewTicketCreatorFromBody(actor, body) ==
  [title |-> body.title,
   description |-> body.description,
   priority |-> IF body.priority = Undefined THEN "medium" ELSE body.priority,
   category |-> body.category,
   createdBy |-> IF body.createdBy = Null THEN actor.id ELSE body.createdBy,
   organizationId |-> actor.organizationId,
   status |-> TicketDefaults.status,
   assignedTo |-> TicketDefaults.assignedTo,
   resolvedAt |-> TicketDefaults.resolvedAt]

NewTicket(actor, body) ==
  [title |-> body.title,
   description |-> body.description,
   priority |-> IF body.priority = Undefined THEN "medium" ELSE body.priority,
   category |-> body.category,
   createdBy |-> actor.id,
   organizationId |-> actor.organizationId,
   status |-> TicketDefaults.status,
   assignedTo |-> TicketDefaults.assignedTo,
   resolvedAt |-> TicketDefaults.resolvedAt]

CreateTicket(actor, body) ==
  IF ~CreateValid(body) THEN Deny(400)
  ELSE Result(200, tickets @@ (nextTicket :> NewTicket(actor, body)),
              responses, {nextTicket}, <<>>)

\* ------------------------------------------------------------ GET /tickets
\* ListQuery without the customer's createdBy restriction.
ListQueryAnyCreator(actor, status) ==
  {t \in DOMAIN tickets :
     /\ tickets[t].organizationId = actor.organizationId
     /\ (status # Undefined /\ status \in Statuses) => tickets[t].status = status}

ListQuery(actor, status) ==
  {t \in DOMAIN tickets :
     /\ tickets[t].organizationId = actor.organizationId
     /\ actor.role = "customer" => tickets[t].createdBy = actor.id
     /\ (status # Undefined /\ status \in Statuses) => tickets[t].status = status}

ListTickets(actor, status) ==
  Result(200, tickets, responses, ListQuery(actor, status), <<>>)

\* -------------------------------------------------------- GET /tickets/:id
\* The ticket is loaded with createdBy populated, so the customer test
\* compares the populated document's text with the caller's id.
GetAccessDenied(actor, tk) ==
  \/ tk.organizationId # actor.organizationId
  \/ /\ actor.role = "customer"
     /\ PopulatedToString(tk.createdBy) # OidString(actor.id)

\* null.toString() throws; the catch block answers 500.
GetThrows(actor, tk) ==
  /\ tk.organizationId = actor.organizationId
  /\ actor.role = "customer"
  /\ PopulatedIsNull(tk.createdBy)

filteredResponses(actor, rsps) ==
  IF actor.role = "customer"
    THEN LET NotInternal(r) == ~r.isInternal IN SelectSeq(rsps, NotInternal)
    ELSE rsps

TicketResponses(t) ==
  SortByCreatedAt({r \in responses : r.ticketId = t})

GetTicketById(actor, t) ==
  IF t \notin DOMAIN tickets THEN Deny(404)
  ELSE IF GetThrows(actor, tickets[t]) THEN Deny(500)
  ELSE IF GetAccessDenied(actor, tickets[t]) THEN Deny(403)
  ELSE Result(200, tickets, responses, {t},
              filteredResponses(actor, TicketResponses(t)))

\* -------------------------------------------------------- PUT /tickets/:id
\* assignedTo in a body is an id, Null when absent, negative when it is not
\* a well-formed ObjectId.
UpdateValid(body) ==
  /\ body.title # ""
  /\ body.description # ""
  /\ body.status = Undefined \/ body.status \in Statuses
  /\ body.priority = Undefined \/ body.priority \in Priorities
  /\ body.assignedTo >= 0

Given(v) == v # Undefined /\ v # ""

SetIf(rec, field, v) == IF Given(v) THEN [rec EXCEPT ![field] = v] ELSE rec

\* ApplyStatus with archived as a final status.
ApplyStatusArchivedFinal(tk, status, now) ==
  IF ~Given(status) \/ tk.status = "archived" THEN tk
  ELSE [tk EXCEPT !.status = status,
                  !.resolvedAt = IF status = "resolved" THEN @ ELSE Null]

\* The status branch: the status is assigned first, resolvedAt decided after.
ApplyStatus(tk, status, now) ==
  IF ~Given(status) THEN tk
  ELSE LET t1 == [tk EXCEPT !.status = status]
       IN IF status = "resolved" /\ t1.status # "resolved"
            THEN [t1 EXCEPT !.resolvedAt = now]
          ELSE IF status # "resolved"
            THEN [t1 EXCEPT !.resolvedAt = Null]
          ELSE t1

\* CustomerUpdate that also copies the status.
CustomerUpdateWithStatus(tk, body) ==
  SetIf(SetIf(SetIf(SetIf(tk, "title", body.title),
                    "description", body.description),
              "category", body.category),
        "status", body.status)

CustomerUpdate(tk, body) ==
  SetIf(SetIf(SetIf(tk, "title", body.title),
              "description", body.description),
        "category", body.category)

\* StaffUpdate that also takes the ticket's owner from the body.
StaffUpdateTakesOwner(tk, body, now) ==
  LET t1 == SetIf(SetIf(tk, "title", body.title), "description", body.description)
      t2 == ApplyStatus(t1, body.status, now)
  IN [t2 EXCEPT !.createdBy = IF body.createdBy # Null THEN body.createdBy ELSE @,
                !.organizationId = IF body.organizationId # Null
                                     THEN body.organizationId ELSE @]

StaffUpdate(tk, body, now) ==
  LET t1 == SetIf(SetIf(tk, "title", body.title), "description", body.description)
      t2 == ApplyStatus(t1, body.status, now)
      t3 == SetIf(SetIf(t2, "priority", body.priority), "category", body.category)
  IN IF body.assignedTo # Null
       THEN [t3 EXCEPT !.assignedTo = body.assignedTo]
       ELSE t3

UpdateDenied(actor, tk) ==
  \/ tk.organizationId # actor.organizationId
  \/ actor.role = "customer" /\ OidString(tk.createdBy) # OidString(actor.id)

UpdatedTicket(actor, tk, body, now) ==
  IF actor.role = "customer" THEN CustomerUpdate(tk, body)
  ELSE StaffUpdate(tk, body, now)

Now == clock + 1

UpdateTicket(actor, t, body) ==
  IF ~UpdateValid(body) THEN Deny(400)
  ELSE IF t \notin DOMAIN tickets THEN Deny(404)
  ELSE IF UpdateDenied(actor, tickets[t]) THEN Deny(403)
  ELSE Result(200,
              SaveDoc(tickets, t, tickets[t],
                      UpdatedTicket(actor, tickets[t], body, Now)),
              responses, {t}, <<>>)

\* ---------------------------------------------- POST /tickets/:id/responses
\* isInternal arrives as JSON true / false ("true", "false"), as the string
\* 'false' ("'false'": isBoolean() accepts it, and it is truthy), or not at all.
BooleanLike == {"true", "false", "'false'"}
Truthy(v) == v \in {"true", "'false'"}

RespondValid(body) ==
  /\ body.content # Undefined /\ body.content # ""
  /\ body.isInternal = Undefined \/ body.isInternal \in BooleanLike

RespondDenied(actor, tk) ==
  \/ tk.organizationId # actor.organizationId
  \/ actor.role = "customer" /\ OidString(tk.createdBy) # OidString(actor.id)

isInternalNote(actor, body) ==
  Truthy(body.isInternal) /\ actor.role \in StaffRoles

NewResponse(actor, t, body, now) ==
  [id |-> now, ticketId |-> t, userId |-> actor.id, content |-> body.content,
   isInternal |-> isInternalNote(actor, body), createdAt |-> now]

\* NeedsReopen that forgets the archived status.
NeedsReopenResolvedOnly(tk) == tk.status = "resolved"

NeedsReopen(tk) == tk.status \in ClosedStatuses

\* Reopened that clears resolvedAt and forgets the status.
ReopenedKeepsStatus(tk) == [tk EXCEPT !.resolvedAt = Null]

Reopened(tk) == [tk EXCEPT !.status = "open", !.resolvedAt = Null]

\* AddResponse that saves the response before it tests the caller's access.
AddResponseSavesFirst(actor, t, body) ==
  IF ~RespondValid(body) THEN Deny(400)
  ELSE IF t \notin DOMAIN tickets THEN Deny(404)
  ELSE LET r == NewResponse(actor, t, body, Now)
       IN IF RespondDenied(actor, tickets[t])
            THEN Result(403, tickets, responses \cup {r}, {}, <<>>)
            ELSE Result(200,
                        IF NeedsReopen(tickets[t])
                          THEN SaveDoc(tickets, t, tickets[t], Reopened(tickets[t]))
                          ELSE tickets,
                        responses \cup {r}, {t}, <<r>>)

AddResponse(actor, t, body) ==
  IF ~RespondValid(body) THEN Deny(400)
  ELSE IF t \notin DOMAIN tickets THEN Deny(404)
  ELSE IF RespondDenied(actor, tickets[t]) THEN Deny(403)
  ELSE LET r == NewResponse(actor, t, body, Now)
       IN Result(200,
                 IF NeedsReopen(tickets[t])
                   THEN SaveDoc(tickets, t, tickets[t], Reopened(tickets[t]))
                   ELSE tickets,
                 responses \cup {r}, {t}, <<r>>)

\* ----------------------------------------------------- DELETE /tickets/:id
\* DeleteDenied without the organization test.
DeleteDeniedNever(actor, tk) == FALSE

DeleteDenied(actor, tk) == tk.organizationId # actor.organizationId

Without(f, k) == [x \in DOMAIN f \ {k} |-> f[x]]

DeleteTicket(actor, t) ==
  IF ~authorize({"admin"}, actor) THEN Deny(403)
  ELSE IF t \notin DOMAIN tickets THEN Deny(404)
  ELSE IF DeleteDenied(actor, tickets[t]) THEN Deny(403)
  ELSE Result(200, Without(tickets, t),
              {r \in responses : r.ticketId # t}, {}, <<>>)

\* ---------------------------------------------------------------- inputs
TicketIds == 1..MaxTickets

CreateBodies ==
  {[title |-> ti, description |-> "A", category |-> "A", priority |-> p] :
     ti \in {"", "A"}, p \in {Undefined, "bogus"}}

NoUpdate ==
  [title |-> Undefined, description |-> Undefined, category |-> Undefined,
   status |-> Undefined, priority |-> Undefined, assignedTo |-> Null]

UpdateBodies ==
  {[NoUpdate EXCEPT !.status = s] : s \in Statuses \cup {Undefined, "closed"}}

RespondBodies ==
  {[content |-> "hi", isInternal |-> i] : i \in BooleanLike \cup {Undefined, "maybe"}}
  \cup {[content |-> "", isInternal |-> Undefined]}

StatusFilters == {Undefined, "resolved", "bogus"}

\* ------------------------------------------------------------------ state
\* The last request and its answer: the route, the caller, the :id, one
\* argument of the request (arg), the status code, the body (list: ticket
\* ids, rlist: responses) and the target ticket as it was stored before.
NoRequest == [op |-> "none", actor |-> NoActor, id |-> Null, arg |-> Undefined,
              code |-> 0, list |-> {}, rlist |-> <<>>, before |-> <<>>]

Observe(op, actor, id, arg, res) ==
  [op |-> op, actor |-> actor, id |-> id, arg |-> arg, code |-> res.code,
   list |-> res.list, rlist |-> res.rlist,
   before |-> IF id \in DOMAIN tickets THEN <<tickets[id]>> ELSE <<>>]

Commit(op, actor, id, arg, res) ==
  /\ tickets' = res.tickets
  /\ responses' = res.responses
  /\ last' = Observe(op, actor, id, arg, res)
  /\ UNCHANGED <<userVars, concVars>>

Init ==
  /\ users = SeedUsers
  /\ tokens = SeedTokens
  /\ orgs = SeedOrgs
  /\ nextUser = 6
  /\ plans = <<>>
  /\ subscriptions = {}
  /\ tickets = <<>>
  /\ responses = {}
  /\ nextTicket = 1
  /\ clock = 0
  /\ last = NoRequest
  /\ reqs = <<>>
  /\ aux = <<>>

Create ==
  \E actor \in Actors, body \in CreateBodies :
    /\ nextTicket <= MaxTickets
    /\ LET res == CreateTicket(actor, body)
       IN /\ Commit("create", actor, nextTicket, body.priority, res)
          /\ nextTicket' = IF res.code = 200 THEN nextTicket + 1 ELSE nextTicket
    /\ UNCHANGED clock

List ==
  \E actor \in Actors, status \in StatusFilters :
    /\ Commit("list", actor, Null, status, ListTickets(actor, status))
    /\ UNCHANGED <<nextTicket, clock>>

Get ==
  \E actor \in Actors, t \in TicketIds :
    /\ Commit("get", actor, t, Undefined, GetTicketById(actor, t))
    /\ UNCHANGED <<nextTicket, clock>>

Update ==
  \E actor \in Actors, t \in TicketIds, body \in UpdateBodies :
    /\ Commit("update", actor, t, body.status, UpdateTicket(actor, t, body))
    /\ UNCHANGED <<nextTicket, clock>>

Respond ==
  \E actor \in Actors, t \in TicketIds, body \in RespondBodies :
    /\ clock < MaxResponses
    /\ LET res == AddResponse(actor, t, body)
       IN /\ Commit("respond", actor, t, body.isInternal, res)
          /\ clock' = IF res.code = 200 THEN clock + 1 ELSE clock
    /\ UNCHANGED nextTicket

Delete ==
  \E actor \in Actors, t \in TicketIds :
    /\ Commit("delete", actor, t, Undefined, DeleteTicket(actor, t))
    /\ UNCHANGED <<nextTicket, clock>>

Next == Create \/ List \/ Get \/ Update \/ Respond \/ Delete

Spec == Init /\ [][Next]_vars

\* ==================================================== updates field by field
\* One ticket, just created by the agent or the customer of organization 1,
\* and PUT /tickets/1 requests whose bodies carry every kind of field.
\* Assignees named: the admin (1), the agent (2) and the customer (3) of the
\* ticket's organization, the admin of the other organization (4), a
\* well-formed id of no user, and a malformed id.
MissingUser == 9

AssigneeInputs == {1, 2, 3, 4, MissingUser, -1}

FieldBodies ==
  {[NoUpdate EXCEPT !.assignedTo = a] : a \in AssigneeInputs}
  \cup {[NoUpdate EXCEPT !.status = s] : s \in {"in_progress", "resolved"}}
  \cup {[NoUpdate EXCEPT !.priority = "high"],
        [NoUpdate EXCEPT !.title = "B"],
        [title |-> "B", description |-> "D", category |-> "C",
         status |-> "resolved", priority |-> "urgent", assignedTo |-> 2],
        [title |-> "", description |-> Undefined, category |-> Undefined,
         status |-> "resolved", priority |-> Undefined, assignedTo |-> Null]}

InitFields ==
  /\ users = SeedUsers
  /\ tokens = SeedTokens
  /\ orgs = SeedOrgs
  /\ nextUser = 6
  /\ plans = <<>>
  /\ subscriptions = {}
  /\ \E creator \in {2, 3} :
       tickets = 1 :> NewTicket(Payload(creator, SeedUsers[creator]),
                                [title |-> "A", description |-> "A",
                                 category |-> "A", priority |-> Undefined])
  /\ responses = {}
  /\ nextTicket = 2
  /\ clock = 0
  /\ last = NoRequest
  /\ reqs = <<>>
  /\ aux = <<>>

\* The request's whole body is kept as the observed argument.
FieldUpdate ==
  \E actor \in Actors, body \in FieldBodies :
    /\ Commit("update", actor, 1, body, UpdateTicket(actor, 1, body))
    /\ UNCHANGED <<nextTicket, clock>>

NextFields == FieldUpdate

SpecFields == InitFields /\ [][NextFields]_vars

\* ============================================================ ticket creation
\* POST /tickets from an empty store, with bodies that also carry fields the
\* route does not read: createdBy, organizationId and status.
SpoofBodies ==
  {[title |-> ti, description |-> "A", category |-> "A", priority |-> p,
    createdBy |-> c, organizationId |-> o, status |-> s] :
     ti \in {"", "A"}, p \in {Undefined, "high", "bogus"},
     c \in {Null, 1, 4}, o \in {Null, 2}, s \in {Undefined, "resolved"}}

InitCreate ==
  /\ users = SeedUsers
  /\ tokens = SeedTokens
  /\ orgs = SeedOrgs
  /\ nextUser = 6
  /\ plans = <<>>
  /\ subscriptions = {}
  /\ tickets = <<>>
  /\ responses = {}
  /\ nextTicket = 1
  /\ clock = 0
  /\ last = NoRequest
  /\ reqs = <<>>
  /\ aux = <<>>

SpoofCreate ==
  \E actor \in Actors, body \in SpoofBodies :
    /\ nextTicket <= MaxTickets
    /\ LET res == CreateTicket(actor, body)
       IN /\ Commit("create", actor, nextTicket, body, res)
          /\ nextTicket' = IF res.code = 200 THEN nextTicket + 1 ELSE nextTicket
    /\ UNCHANGED clock

NextCreate == SpoofCreate

SpecCreate == InitCreate /\ [][NextCreate]_vars

\* ============================================================= user routes
\* Users carry email (a number names an address), role, organizationId,
\* parentUserId and isActive; names and passwords are left out, and a body's
\* `complete` says whether its other required fields pass their validators.
UResult(code, us, tks, os, list) ==
  [code |-> code, users |-> us, tokens |-> tks, orgs |-> os, list |-> list]

UDeny(code) == UResult(code, users, tokens, orgs, {})

EmailTaken(e) == \E u \in DOMAIN users : users[u].email = e

\* The User schema's defaults for the paths the routes do not set.
UserDefaults == [isActive |-> TRUE, parentUserId |-> Null]

NewUser(email, role, org, parent) ==
  [email |-> email, role |-> role, organizationId |-> org,
   parentUserId |-> parent, isActive |-> UserDefaults.isActive]

\* POST /auth/register: a new organization and its first user, the admin.
Register(body) ==
  IF ~(body.email > 0 /\ body.complete) THEN UDeny(400)
  ELSE IF EmailTaken(body.email) THEN UDeny(400)
  ELSE LET o == Cardinality(DOMAIN orgs) + 1
           u == NewUser(body.email, "admin", o, UserDefaults.parentUserId)
       IN UResult(200, users @@ (nextUser :> u),
                  (nextUser :> Payload(nextUser, u)) @@ tokens,
                  orgs @@ (o :> NewOrganization), {nextUser})

\* POST /auth/login: a token with the user's role and organization as stored.
LoginUser(email, passwordMatches) ==
  IF ~EmailTaken(email) \/ ~passwordMatches THEN UDeny(400)
  ELSE LET uid == CHOOSE u \in DOMAIN users : users[u].email = email
       IN UResult(200, users, (uid :> Payload(uid, users[uid])) @@ tokens,
                  orgs, {uid})

\* POST /auth/subuser
SubuserValid(body) ==
  body.email > 0 /\ body.complete /\ body.role \in {"agent", "customer"}

CreateSubuser(actor, body) ==
  IF ~authorize({"admin"}, actor) THEN UDeny(403)
  ELSE IF ~SubuserValid(body) THEN UDeny(400)
  ELSE IF EmailTaken(body.email) THEN UDeny(400)
  ELSE UResult(200,
               users @@ (nextUser :>
                 NewUser(body.email, body.role, actor.organizationId, actor.id)),
               tokens, orgs, {nextUser})

\* GET /users
ListUsers(actor) ==
  IF ~authorize({"admin"}, actor) THEN UDeny(403)
  ELSE UResult(200, users, tokens, orgs,
               {u \in DOMAIN users :
                  users[u].organizationId = actor.organizationId})

\* UserDenied without the organization test.
UserDeniedNever(actor, user) == FALSE

\* "Ensure user belongs to same organization"
UserDenied(actor, user) == user.organizationId # actor.organizationId

\* GET /users/:id
GetUser(actor, id) ==
  IF ~authorize({"admin"}, actor) THEN UDeny(403)
  ELSE IF id \notin DOMAIN users THEN UDeny(404)
  ELSE IF UserDenied(actor, users[id]) THEN UDeny(403)
  ELSE UResult(200, users, tokens, orgs, {id})

\* PUT /users/:id
UserUpdateValid(body) ==
  /\ body.role = Undefined \/ body.role \in {"admin", "agent", "customer"}
  /\ body.isActive = Undefined \/ body.isActive \in {"true", "false"}

UpdatedUser(user, body) ==
  LET u1 == IF Given(body.role) THEN [user EXCEPT !.role = body.role] ELSE user
  IN IF body.isActive # Undefined
       THEN [u1 EXCEPT !.isActive = (body.isActive = "true")]
       ELSE u1

UpdateUser(actor, id, body) ==
  IF ~authorize({"admin"}, actor) THEN UDeny(403)
  ELSE IF ~UserUpdateValid(body) THEN UDeny(400)
  ELSE IF id \notin DOMAIN users THEN UDeny(404)
  ELSE IF UserDenied(actor, users[id]) THEN UDeny(403)
  ELSE UResult(200, [users EXCEPT ![id] = UpdatedUser(users[id], body)],
               tokens, orgs, {id})

\* DELETE /users/:id
\* IsMainAdmin that protects nobody.
IsMainAdminNever(user) == FALSE

\* "Prevent deleting the main admin account": !user.parentUserId
IsMainAdmin(user) == user.parentUserId = Null

DeleteUser(actor, id) ==
  IF ~authorize({"admin"}, actor) THEN UDeny(403)
  ELSE IF id \notin DOMAIN users THEN UDeny(404)
  ELSE IF UserDenied(actor, users[id]) THEN UDeny(403)
  ELSE IF IsMainAdmin(users[id]) THEN UDeny(400)
  ELSE UResult(200, Without(users, id), tokens, orgs, {})

\* ------------------------------------------------------------ user inputs
UserIds == 1..MaxUsers

\* An address already stored, a fresh one, or one that is no address.
EmailInputs == {users[u].email : u \in DOMAIN users} \cup {nextUser, -1}

RegisterBodies ==
  {[email |-> e, complete |-> TRUE] : e \in EmailInputs}
  \cup {[email |-> nextUser, complete |-> FALSE]}

SubuserBodies ==
  {[email |-> nextUser, complete |-> TRUE, role |-> r] :
     r \in {"agent", "customer", "admin"}}
  \cup {[email |-> e, complete |-> TRUE, role |-> "agent"] : e \in EmailInputs}

UserUpdateBodies ==
  {[role |-> r, isActive |-> Undefined] :
     r \in {Undefined, "admin", "agent", "customer", "owner"}}
  \cup {[role |-> Undefined, isActive |-> a] : a \in {"true", "false"}}

\* ------------------------------------------------------------- user state
ObserveUser(op, actor, id, arg, res) ==
  [op |-> op, actor |-> actor, id |-> id, arg |-> arg, code |-> res.code,
   list |-> res.list, rlist |-> <<>>,
   before |-> IF id \in DOMAIN users THEN <<users[id]>> ELSE <<>>]

CommitUser(op, actor, id, arg, res) ==
  /\ users' = res.users
  /\ tokens' = res.tokens
  /\ orgs' = res.orgs
  /\ nextUser' = IF DOMAIN res.users = DOMAIN users \/ res.code # 200
                   THEN nextUser
                   ELSE IF nextUser \in DOMAIN res.users THEN nextUser + 1
                   ELSE nextUser
  /\ last' = ObserveUser(op, actor, id, arg, res)
  /\ UNCHANGED <<ticketVars, concVars, plans, subscriptions>>

InitUsers ==
  /\ users = <<>>
  /\ tokens = <<>>
  /\ orgs = <<>>
  /\ nextUser = 1
  /\ plans = <<>>
  /\ subscriptions = {}
  /\ tickets = <<>>
  /\ responses = {}
  /\ nextTicket = 1
  /\ clock = 0
  /\ last = NoRequest
  /\ reqs = <<>>
  /\ aux = <<>>

RegisterOrg ==
  \E body \in RegisterBodies :
    /\ nextUser <= MaxUsers
    /\ CommitUser("register", NoActor, nextUser, Undefined, Register(body))

Login ==
  \E e \in EmailInputs, pw \in BOOLEAN :
    /\ pw \/ e = nextUser
    /\ CommitUser("login", NoActor, Null, Undefined, LoginUser(e, pw))

Subuser ==
  \E actor \in Actors, body \in SubuserBodies :
    /\ nextUser <= MaxUsers
    /\ CommitUser("subuser", actor, nextUser, body.role, CreateSubuser(actor, body))

UsersList ==
  \E actor \in Actors :
    CommitUser("listUsers", actor, Null, Undefined, ListUsers(actor))

UserGet ==
  \E actor \in Actors, id \in UserIds :
    CommitUser("getUser", actor, id, Undefined, GetUser(actor, id))

UserUpdate ==
  \E actor \in Actors, id \in UserIds, body \in UserUpdateBodies :
    CommitUser("updateUser", actor, id, Undefined, UpdateUser(actor, id, body))

UserDelete ==
  \E actor \in Actors, id \in UserIds :
    CommitUser("deleteUser", actor, id, Undefined, DeleteUser(actor, id))

NextUsers ==
  RegisterOrg \/ Login \/ Subuser \/ UsersList \/ UserGet \/ UserUpdate \/ UserDelete

SpecUsers == InitUsers /\ [][NextUsers]_vars

\* ========================================================== ticket ownership
\* Ticket creation, updates whose bodies also carry createdBy and
\* organizationId, responses, and PUT /users/:id on the seeded users.
OwnerBodies ==
  {[title |-> Undefined, description |-> Undefined, category |-> Undefined,
    status |-> s, priority |-> Undefined, assignedTo |-> Null,
    createdBy |-> c, organizationId |-> o] :
     s \in {Undefined, "resolved"}, c \in {Null, 4}, o \in {Null, 2}}

OwnerUserBodies ==
  {[role |-> "customer", isActive |-> Undefined],
   [role |-> Undefined, isActive |-> "false"]}

OwnerUpdate ==
  \E actor \in Actors, t \in TicketIds, body \in OwnerBodies :
    /\ Commit("update", actor, t, body, UpdateTicket(actor, t, body))
    /\ UNCHANGED <<nextTicket, clock>>

OwnerRespond ==
  \E actor \in Actors, t \in TicketIds :
    /\ clock < MaxResponses
    /\ LET body == [content |-> "hi", isInternal |-> Undefined]
           res == AddResponse(actor, t, body)
       IN /\ Commit("respond", actor, t, Undefined, res)
          /\ clock' = IF res.code = 200 THEN clock + 1 ELSE clock
    /\ UNCHANGED nextTicket

OwnerUserUpdate ==
  \E actor \in Actors, id \in UserIds, body \in OwnerUserBodies :
    CommitUser("updateUser", actor, id, Undefined, UpdateUser(actor, id, body))

NextOwner == Create \/ OwnerUpdate \/ OwnerRespond \/ OwnerUserUpdate

SpecOwner == Init /\ [][NextOwner]_vars

\* ======================================================= the user ceiling
\* Organization 1 with as many users as its maxUsers allows: the admin who
\* registered it and the subusers that admin created.  The admin goes on
\* creating, deactivating, reactivating and deleting users.
MaxExtraUsers == 1

CeilingUsers ==
  [u \in 1..NewOrganization.maxUsers |->
     IF u = 1 THEN NewUser(1, "admin", 1, UserDefaults.parentUserId)
     ELSE NewUser(u, "agent", 1, 1)]

InitQuota ==
  /\ users = CeilingUsers
  /\ tokens = 1 :> Payload(1, CeilingUsers[1])
  /\ orgs = 1 :> NewOrganization
  /\ nextUser = NewOrganization.maxUsers + 1
  /\ plans = <<>>
  /\ subscriptions = {}
  /\ tickets = <<>>
  /\ responses = {}
  /\ nextTicket = 1
  /\ clock = 0
  /\ last = NoRequest
  /\ reqs = <<>>
  /\ aux = <<>>

QuotaSubuser ==
  \E actor \in Actors, body \in SubuserBodies :
    /\ nextUser <= NewOrganization.maxUsers + MaxExtraUsers
    /\ CommitUser("subuser", actor, nextUser, body.role, CreateSubuser(actor, body))

QuotaSetActive ==
  \E actor \in Actors, id \in DOMAIN users, a \in {"true", "false"} :
    CommitUser("updateUser", actor, id, Undefined,
               UpdateUser(actor, id, [role |-> Undefined, isActive |-> a]))

QuotaDelete ==
  \E actor \in Actors, id \in DOMAIN users :
    CommitUser("deleteUser", actor, id, Undefined, DeleteUser(actor, id))

NextQuota == QuotaSubuser \/ QuotaSetActive \/ QuotaDelete

SpecQuota == InitQuota /\ [][NextQuota]_vars

\* ================================================ serverless tickets function
\* netlify/functions/tickets works on the Supabase tables `tickets` and
\* `ticket_responses` through a service-role client.  The caller is the id
\* that supabase.auth.getUser resolves the bearer token to; `users` holds the
\* rows of the users table.  Timestamps are left out of the rows.

FnResult(code, tks, rsps, data) ==
  [code |-> code, tickets |-> tks, responses |-> rsps, data |-> data]

\* The catch block: the statement that threw wrote nothing.
FnThrow == FnResult(500, tickets, responses, <<>>)

\* JavaScript's a || b: over ids (absent is null) and over strings.
IdOr(v, d) == IF v = Null THEN d ELSE v
StrOr(v, d) == IF v = Undefined THEN d ELSE v

\* The row the create case inserts.
FnTicketRow(user, body) ==
  [title |-> body.title, status |-> StrOr(body.status, "open"),
   created_by |-> IdOr(body.createdBy, user), assigned_to |-> body.assignedTo,
   organization_id |-> body.organizationId]

\* The tickets table's NOT NULL and REFERENCES constraints.
TicketRowAccepted(row) ==
  /\ row.title # Undefined
  /\ row.created_by \in DOMAIN users
  /\ row.assigned_to = Null \/ row.assigned_to \in DOMAIN users
  /\ row.organization_id \in DOMAIN orgs

FnCreate(user, body) ==
  LET row == FnTicketRow(user, body)
  IN IF ~TicketRowAccepted(row) THEN FnThrow
     ELSE FnResult(201, tickets @@ (nextTicket :> row), responses, <<row>>)

\* ticket_responses(*) embedded in the selected ticket.
FnEmbeddedResponses(user, t) == {r \in responses : r.ticket_id = t}

FnGetById(user, t) ==
  IF t \notin DOMAIN tickets THEN FnResult(404, tickets, responses, <<>>)
  ELSE FnResult(200, tickets, responses,
                <<[ticket |-> tickets[t],
                   ticket_responses |-> FnEmbeddedResponses(user, t)]>>)

\* update(...).eq('id', ticketId): keys that are undefined are not sent.
FnUpdatedRow(row, body) ==
  [row EXCEPT !.title = StrOr(body.title, @),
              !.status = StrOr(body.status, @),
              !.assigned_to = IdOr(body.assignedTo, @)]

FnUpdate(user, t, body) ==
  IF t \notin DOMAIN tickets THEN FnResult(200, tickets, responses, <<>>)
  ELSE LET row == FnUpdatedRow(tickets[t], body)
       IN IF ~TicketRowAccepted(row) THEN FnThrow
          ELSE FnResult(200, [tickets EXCEPT ![t] = row], responses, <<row>>)

\* The row the add-response case inserts; isInternal || false makes an absent
\* flag false.
FnResponseRow(user, t, body, rid) ==
  [id |-> rid, ticket_id |-> t, content |-> body.content,
   is_internal |-> body.isInternal, created_by |-> IdOr(body.createdBy, user)]

ResponseRowAccepted(row) ==
  /\ row.ticket_id \in DOMAIN tickets
  /\ row.content # Undefined
  /\ row.created_by \in DOMAIN users

FnAddResponse(user, t, body) ==
  LET row == FnResponseRow(user, t, body, clock + 1)
  IN IF ~ResponseRowAccepted(row) THEN FnThrow
     ELSE FnResult(201,
                   IF body.updateStatus = Undefined THEN tickets
                   ELSE [tickets EXCEPT ![t].status = body.updateStatus],
                   responses \cup {row}, <<row>>)

\* delete().eq('id', ticketId): ticket_responses.ticket_id REFERENCES tickets(id)
\* without ON DELETE CASCADE, so a ticket that has responses is not deleted.
FnDelete(user, t) ==
  IF \E r \in responses : r.ticket_id = t THEN FnThrow
  ELSE FnResult(200, Without(tickets, t), responses, <<>>)

\* -------------------------------------------------------- serverless inputs
FnCreateBodies ==
  {[title |-> ti, status |-> Undefined, createdBy |-> c, assignedTo |-> Null,
    organizationId |-> o] :
     ti \in {Undefined, "A"}, c \in {Null, 1, 4}, o \in {Null, 1, 2}}

FnUpdateBodies ==
  {[title |-> Undefined, status |-> s, assignedTo |-> Null] :
     s \in {Undefined, "resolved"}}

FnRespondBodies ==
  {[content |-> "hi", isInternal |-> i, createdBy |-> c, updateStatus |-> s] :
     i \in BOOLEAN, c \in {Null, 1}, s \in {Undefined, "pending"}}

\* --------------------------------------------------------- serverless state
FnObserve(op, user, id, arg, res) ==
  [op |-> op, actor |-> user, id |-> id, arg |-> arg, code |-> res.code,
   data |-> res.data,
   before |-> IF id \in DOMAIN tickets THEN <<tickets[id]>> ELSE <<>>]

FnCommit(op, user, id, arg, res) ==
  /\ tickets' = res.tickets
  /\ responses' = res.responses
  /\ last' = FnObserve(op, user, id, arg, res)
  /\ UNCHANGED <<userVars, concVars>>

InitFn ==
  /\ users = SeedUsers
  /\ tokens = SeedTokens
  /\ orgs = SeedOrgs
  /\ nextUser = 6
  /\ plans = <<>>
  /\ subscriptions = {}
  /\ tickets = <<>>
  /\ responses = {}
  /\ nextTicket = 1
  /\ clock = 0
  /\ last = [op |-> "none", actor |-> Null, id |-> Null, arg |-> Undefined,
             code |-> 0, data |-> <<>>, before |-> <<>>]
  /\ reqs = <<>>
  /\ aux = <<>>

FnCreateTicket ==
  \E user \in DOMAIN SeedUsers, body \in FnCreateBodies :
    /\ nextTicket <= MaxTickets
    /\ LET res == FnCreate(user, body)
       IN /\ FnCommit("create", user, nextTicket, body, res)
          /\ nextTicket' = IF res.code = 201 THEN nextTicket + 1 ELSE nextTicket
    /\ UNCHANGED clock

FnGetTicket ==
  \E user \in DOMAIN SeedUsers, t \in TicketIds :
    /\ FnCommit("get", user, t, Undefined, FnGetById(user, t))
    /\ UNCHANGED <<nextTicket, clock>>

FnUpdateTicket ==
  \E user \in DOMAIN SeedUsers, t \in TicketIds, body \in FnUpdateBodies :
    /\ FnCommit("update", user, t, body, FnUpdate(user, t, body))
    /\ UNCHANGED <<nextTicket, clock>>

FnRespond ==
  \E user \in DOMAIN SeedUsers, t \in TicketIds, body \in FnRespondBodies :
    /\ clock < MaxResponses
    /\ LET res == FnAddResponse(user, t, body)
       IN /\ FnCommit("respond", user, t, body, res)
          /\ clock' = IF res.code = 201 THEN clock + 1 ELSE clock
    /\ UNCHANGED nextTicket

FnDeleteTicket ==
  \E user \in DOMAIN SeedUsers, t \in TicketIds :
    /\ FnCommit("delete", user, t, Undefined, FnDelete(user, t))
    /\ UNCHANGED <<nextTicket, clock>>

NextFn == FnCreateTicket \/ FnGetTicket \/ FnUpdateTicket \/ FnRespond
          \/ FnDeleteTicket

SpecFn == InitFn /\ [][NextFn]_vars

\* ============================================ admin and subscription routes
\* src/server/routes/admin.js and the subscriptions router.  Stripe is outside
\* the program: a call to it succeeds or throws (stripeOk).
MaxPlans == 1
MaxSubscriptions == 2

Tiers == {"basic", "professional", "enterprise"}

\* String.prototype.toLowerCase over the plan names in use.
toLowerCase(name) ==
  CASE name = "Basic" -> "basic"
    [] name = "Gold" -> "gold"
    [] OTHER -> name

\* OrganizationSchema's enum validators, run by save().
OrganizationValid(o) ==
  /\ o.subscriptionStatus \in {"trial", "active", "cancelled", "expired"}
  /\ o.subscriptionTier \in Tiers

BResult(code, os, ps, subs) ==
  [code |-> code, orgs |-> os, plans |-> ps, subscriptions |-> subs]

BDeny(code) == BResult(code, orgs, plans, subscriptions)

StripeConnected(actor) ==
  /\ actor.organizationId \in DOMAIN orgs
  /\ orgs[actor.organizationId].stripeCustomerId # Null

\* GET /admin/pricing
GetPricing(actor) ==
  IF ~authorize({"admin"}, actor) THEN BDeny(403) ELSE BDeny(200)

\* POST /admin/pricing
PlanValid(body) == body.name # "" /\ body.isActive \in {"true", "false"}

CreatePlan(actor, body, stripeOk) ==
  IF ~authorize({"admin"}, actor) THEN BDeny(403)
  ELSE IF ~PlanValid(body) THEN BDeny(400)
  ELSE BResult(200, orgs,
               plans @@ ((Cardinality(DOMAIN plans) + 1) :>
                 [name |-> body.name, isActive |-> (body.isActive = "true"),
                  stripePriceId |-> IF StripeConnected(actor) /\ stripeOk
                                      THEN 1 ELSE Null]),
               subscriptions)

\* PUT /admin/pricing/:id.  Stripe prices are 1 and 2: the new price is the
\* one the plan did not have.
UpdatePlan(actor, id, body, stripeOk) ==
  IF ~authorize({"admin"}, actor) THEN BDeny(403)
  ELSE IF id \notin DOMAIN plans THEN BDeny(404)
  ELSE LET p1 == IF body.name # Undefined
                   THEN [plans[id] EXCEPT !.name = body.name] ELSE plans[id]
           p2 == IF body.isActive # Undefined
                   THEN [p1 EXCEPT !.isActive = (body.isActive = "true")] ELSE p1
           p3 == IF p2.stripePriceId # Null /\ stripeOk
                   THEN [p2 EXCEPT !.stripePriceId = 3 - @] ELSE p2
       IN IF p3.name = "" THEN BDeny(500)
          ELSE BResult(200, orgs, [plans EXCEPT ![id] = p3], subscriptions)

\* POST /admin/stripe/connect
StripeConnect(actor) ==
  IF ~authorize({"admin"}, actor) THEN BDeny(403)
  ELSE IF actor.organizationId \notin DOMAIN orgs THEN BDeny(404)
  ELSE BResult(200, [orgs EXCEPT ![actor.organizationId].stripeCustomerId = 1],
               plans, subscriptions)

\* PUT /admin/stripe/mode
StripeMode(actor, mode) ==
  IF ~authorize({"admin"}, actor) THEN BDeny(403)
  ELSE IF mode \notin {"test", "live"} THEN BDeny(400)
  ELSE BDeny(200)

\* POST /admin/stripe/webhook: no auth middleware; constructEvent verifies the
\* Stripe signature.  The organization is looked up by the Stripe
\* subscription id of the event; a save() of a status outside the enum
\* rejects and is logged.
StripeWebhook(signed, type, status, sid) ==
  IF ~signed THEN BDeny(400)
  ELSE LET found == {o \in DOMAIN orgs : orgs[o].stripeSubscriptionId = sid}
           set(o) ==
             IF type = "deleted"
               THEN [orgs[o] EXCEPT !.subscriptionStatus = "cancelled",
                                    !.stripeSubscriptionId = Null]
               ELSE [orgs[o] EXCEPT !.subscriptionStatus =
                       IF status = "active" THEN "active" ELSE "inactive"]
       IN IF found = {} \/ type \notin {"created", "updated", "deleted"}
            THEN BDeny(200)
          ELSE LET o == CHOOSE x \in found : TRUE
               IN IF OrganizationValid(set(o))
                    THEN BResult(200, [orgs EXCEPT ![o] = set(o)], plans,
                                 subscriptions)
                    ELSE BDeny(200)

\* GET /subscriptions/current
CurrentSubscription(actor) ==
  IF \E s \in subscriptions : /\ s.organizationId = actor.organizationId
                              /\ s.status \in {"active", "cancelled"}
    THEN BDeny(200) ELSE BDeny(404)

\* GET /subscriptions/plans
ListPlans(actor) == BDeny(200)

\* POST /subscriptions/checkout.  The demo path: updateMany cancels the
\* organization's active subscriptions, a new active one is saved, then the
\* organization is saved with the plan's name in lower case as its tier.
CancelledAll(subs, org) ==
  {IF s.organizationId = org /\ s.status = "active"
     THEN [s EXCEPT !.status = "cancelled"] ELSE s : s \in subs}

NewSubscription(org, planId, id) ==
  [id |-> id, organizationId |-> org, planId |-> planId, status |-> "active"]

Subscribed(o, plan) ==
  [o EXCEPT !.subscriptionStatus = "active",
            !.subscriptionTier = toLowerCase(plan.name)]

Checkout(actor, planId, stripeOk) ==
  IF planId = Null THEN BDeny(400)
  ELSE IF planId \notin DOMAIN plans \/ ~plans[planId].isActive THEN BDeny(404)
  ELSE IF actor.organizationId \notin DOMAIN orgs THEN BDeny(404)
  ELSE IF StripeConnected(actor) /\ plans[planId].stripePriceId # Null
    THEN (IF stripeOk THEN BDeny(200) ELSE BDeny(500))
  ELSE LET org == actor.organizationId
           subs == CancelledAll(subscriptions, org)
                     \cup {NewSubscription(org, planId,
                                           Cardinality(subscriptions) + 1)}
           o == Subscribed(orgs[org], plans[planId])
       IN IF OrganizationValid(o)
            THEN BResult(200, [orgs EXCEPT ![org] = o], plans, subs)
            ELSE BResult(500, orgs, plans, subs)

\* POST /subscriptions/cancel
Cancel(actor) ==
  LET active == {s \in subscriptions : /\ s.organizationId = actor.organizationId
                                       /\ s.status = "active"}
  IN IF active = {} THEN BDeny(404)
     ELSE LET one == CHOOSE s \in active : \A x \in active : s.id <= x.id
              subs == (subscriptions \ {one})
                        \cup {[one EXCEPT !.status = "cancelled"]}
          IN BResult(200,
                     IF actor.organizationId \in DOMAIN orgs
                       THEN [orgs EXCEPT
                               ![actor.organizationId].subscriptionStatus = "cancelled"]
                       ELSE orgs,
                     plans, subs)

\* ============================================================ authentication
\* Every route of the ticket, user, admin and subscription routers, reached
\* with and without a token.  A request carries in x-auth-token nothing, a
\* string that jwt.verify rejects, or a token the server signed (here the
\* one of organization 1's admin).
Credentials ==
  {[kind |-> k, user |-> NoActor] : k \in {"missing", "invalid"}}
  \cup {[kind |-> "valid", user |-> tokens[1]]}

\* auth that only looks for the header.
authHeaderOnly(cred) == cred.kind # "missing"

\* The auth middleware: TRUE when it calls next().
auth(cred) == cred.kind = "valid"

\* The routes that list auth before their handler, by router.
TicketRoutes ==
  {"POST /tickets", "GET /tickets", "GET /tickets/:id", "PUT /tickets/:id",
   "POST /tickets/:id/responses", "DELETE /tickets/:id"}

UserRoutes ==
  {"GET /users", "GET /users/:id", "PUT /users/:id", "DELETE /users/:id"}

AdminRoutes ==
  {"GET /admin/pricing", "POST /admin/pricing", "PUT /admin/pricing/:id",
   "POST /admin/stripe/connect", "PUT /admin/stripe/mode"}

SubscriptionRoutes ==
  {"GET /subscriptions/current", "GET /subscriptions/plans",
   "POST /subscriptions/checkout", "POST /subscriptions/cancel"}

AuthRoutes == TicketRoutes \cup UserRoutes \cup AdminRoutes \cup SubscriptionRoutes

WebhookRoute == "POST /admin/stripe/webhook"

\* An answer and the collections after it; ran: the handler was entered.
Answer(code, ran, us, os, tks, rsps, ps, subs) ==
  [code |-> code, ran |-> ran, users |-> us, orgs |-> os, tickets |-> tks,
   responses |-> rsps, plans |-> ps, subscriptions |-> subs]

OfTickets(res) ==
  Answer(res.code, TRUE, users, orgs, res.tickets, res.responses, plans,
         subscriptions)

OfUsers(res) ==
  Answer(res.code, TRUE, res.users, res.orgs, tickets, responses, plans,
         subscriptions)

OfBilling(res) ==
  Answer(res.code, TRUE, users, res.orgs, tickets, responses, res.plans,
         res.subscriptions)

\* auth answered 401: next() was not called.
Unauthenticated ==
  Answer(401, FALSE, users, orgs, tickets, responses, plans, subscriptions)

\* The handler of each route, on the first id of its collection and one body.
Handler(route, actor, stripeOk) ==
  CASE route = "POST /tickets" ->
         OfTickets(CreateTicket(actor, [title |-> "A", description |-> "A",
                                        category |-> "A", priority |-> Undefined]))
    [] route = "GET /tickets" -> OfTickets(ListTickets(actor, Undefined))
    [] route = "GET /tickets/:id" -> OfTickets(GetTicketById(actor, 1))
    [] route = "PUT /tickets/:id" ->
         OfTickets(UpdateTicket(actor, 1, [NoUpdate EXCEPT !.status = "resolved"]))
    [] route = "POST /tickets/:id/responses" ->
         OfTickets(AddResponse(actor, 1, [content |-> "hi", isInternal |-> Undefined]))
    [] route = "DELETE /tickets/:id" -> OfTickets(DeleteTicket(actor, 1))
    [] route = "GET /users" -> OfUsers(ListUsers(actor))
    [] route = "GET /users/:id" -> OfUsers(GetUser(actor, 2))
    [] route = "PUT /users/:id" ->
         OfUsers(UpdateUser(actor, 2, [role |-> Undefined, isActive |-> "false"]))
    [] route = "DELETE /users/:id" -> OfUsers(DeleteUser(actor, 2))
    [] route = "GET /admin/pricing" -> OfBilling(GetPricing(actor))
    [] route = "POST /admin/pricing" ->
         OfBilling(CreatePlan(actor, [name |-> "Basic", isActive |-> "true"],
                              stripeOk))
    [] route = "PUT /admin/pricing/:id" ->
         OfBilling(UpdatePlan(actor, 1, [name |-> "Gold", isActive |-> Undefined],
                              stripeOk))
    [] route = "POST /admin/stripe/connect" -> OfBilling(StripeConnect(actor))
    [] route = "PUT /admin/stripe/mode" -> OfBilling(StripeMode(actor, "live"))
    [] route = "GET /subscriptions/current" -> OfBilling(CurrentSubscription(actor))
    [] route = "GET /subscriptions/plans" -> OfBilling(ListPlans(actor))
    [] route = "POST /subscriptions/checkout" -> OfBilling(Checkout(actor, 1, stripeOk))
    [] route = "POST /subscriptions/cancel" -> OfBilling(Cancel(actor))

\* The collections stay within the bounds.
WithinBounds(ans) ==
  /\ Cardinality(DOMAIN ans.tickets) <= MaxTickets
  /\ DOMAIN ans.tickets # DOMAIN tickets => nextTicket <= MaxTickets
  /\ Cardinality(ans.responses) <= MaxResponses
  /\ ans.responses # responses => clock < MaxResponses
  /\ Cardinality(DOMAIN ans.plans) <= MaxPlans
  /\ Cardinality(ans.subscriptions) <= MaxSubscriptions

Answered(route, cred, ans) ==
  /\ WithinBounds(ans)
  /\ users' = ans.users
  /\ orgs' = ans.orgs
  /\ tickets' = ans.tickets
  /\ responses' = ans.responses
  /\ plans' = ans.plans
  /\ subscriptions' = ans.subscriptions
  /\ nextTicket' = IF nextTicket \in DOMAIN ans.tickets THEN nextTicket + 1
                   ELSE nextTicket
  /\ clock' = IF ans.responses \subseteq responses THEN clock ELSE clock + 1
  /\ last' = [op |-> route, cred |-> cred.kind, code |-> ans.code,
              ran |-> ans.ran]
  /\ UNCHANGED <<tokens, nextUser, concVars>>

InitAuth == Init

AuthRequest ==
  \E route \in AuthRoutes, cred \in Credentials, stripeOk \in BOOLEAN :
    /\ stripeOk \/ (auth(cred) /\ StripeConnected(cred.user))
    /\ Answered(route, cred,
                IF auth(cred) THEN Handler(route, cred.user, stripeOk)
                ELSE Unauthenticated)

WebhookRequest ==
  \E cred \in Credentials, signed \in BOOLEAN, type \in {"updated", "deleted"} :
    Answered(WebhookRoute, cred,
             OfBilling(StripeWebhook(signed, type, "active", 1)))

NextAuth == AuthRequest \/ WebhookRequest

SpecAuth == InitAuth /\ [][NextAuth]_vars

\* ============================================== concurrent ticket requests
\* The add-response and update handlers as the database sees them: each
\* await is one database operation, and operations of requests in flight
\* interleave.  A write may fail (the handler's catch block answers 500).
\* One ticket is stored; it was created by the agent or the customer of
\* organization 1 and brought to some status by earlier updates.
Slots == 1..MaxReqs

\* A request: its route, where it stands, the ticket as findById loaded it
\* (snap), the document its next save() writes (doc), the id of the response
\* it inserted (rid), its status code, and whether the ticket's status was
\* written by another request since it was loaded (stale).
Idle == [kind |-> "idle", pc |-> "idle", snap |-> <<>>, doc |-> <<>>,
         rid |-> Null, code |-> 0, stale |-> FALSE]

\* Requests take the slots in order.
Free(i) == reqs[i].kind = "idle" /\ \A j \in Slots : j < i => reqs[j].kind # "idle"

InFlight(i) == reqs[i].pc \in {"insert", "save"}

\* Bookkeeping of the run, not program state: the status the ticket started
\* with, the number of writes that changed its status to open, whether a
\* response was inserted since its status was last written, and whether a
\* reopen write replaced a status written after the handler's read.
StatusWritten(i) == reqs[i].doc[1].status # reqs[i].snap[1].status

MarkStale(i) ==
  [j \in Slots |-> IF j # i /\ InFlight(j)
                     THEN [reqs[j] EXCEPT !.stale = TRUE] ELSE reqs[j]]

Finish(rq, code) == [rq EXCEPT !.pc = "done", !.code = code, !.doc = <<>>]

InitConc ==
  /\ users = SeedUsers
  /\ tokens = SeedTokens
  /\ orgs = SeedOrgs
  /\ nextUser = 6
  /\ plans = <<>>
  /\ subscriptions = {}
  /\ \E creator \in {2, 3}, s \in Statuses :
       /\ tickets = 1 :> [NewTicket(Payload(creator, SeedUsers[creator]),
                                    [title |-> "A", description |-> "A",
                                     category |-> "A", priority |-> Undefined])
                            EXCEPT !.status = s]
       /\ aux = [initStatus |-> s, reopens |-> 0, respSinceStatus |-> FALSE,
                 clobbered |-> FALSE]
  /\ responses = {}
  /\ nextTicket = 2
  /\ clock = 0
  /\ last = NoRequest
  /\ reqs = [i \in Slots |-> Idle]

\* findById and the checks that follow it in the same turn.
Started(kind, valid, denied, doc, pc) ==
  LET rq == [Idle EXCEPT !.kind = kind]
  IN IF ~valid THEN Finish(rq, 400)
     ELSE IF 1 \notin DOMAIN tickets THEN Finish(rq, 404)
     ELSE IF denied THEN Finish(rq, 403)
     ELSE [rq EXCEPT !.pc = pc, !.snap = <<tickets[1]>>, !.doc = <<doc>>]

StartRespond(i) ==
  \E actor \in Actors, body \in RespondBodies :
    /\ Free(i)
    /\ reqs' = [reqs EXCEPT ![i] =
                  Started("respond", RespondValid(body),
                          RespondDenied(actor, tickets[1]),
                          NewResponse(actor, 1, body, Null), "insert")]
    /\ UNCHANGED <<userVars, ticketVars, last, aux>>

\* newResponse.save(), then the test of the status the handler read.
RespondInsert(i) ==
  /\ reqs[i].kind = "respond" /\ reqs[i].pc = "insert"
  /\ clock' = clock + 1
  /\ responses' = responses \cup
       {[reqs[i].doc[1] EXCEPT !.id = clock', !.createdAt = clock']}
  /\ reqs' = [reqs EXCEPT ![i] =
       IF NeedsReopen(reqs[i].snap[1])
         THEN [reqs[i] EXCEPT !.pc = "save", !.rid = clock',
                              !.doc = <<Reopened(reqs[i].snap[1])>>]
         ELSE [Finish(reqs[i], 200) EXCEPT !.rid = clock']]
  /\ aux' = [aux EXCEPT !.respSinceStatus = TRUE]
  /\ UNCHANGED <<userVars, tickets, nextTicket, last>>

\* ticket.save() of the reopened ticket.
RespondSave(i) ==
  /\ reqs[i].kind = "respond" /\ reqs[i].pc = "save"
  /\ tickets' = SaveDoc(tickets, 1, reqs[i].snap[1], reqs[i].doc[1])
  /\ reqs' = [MarkStale(i) EXCEPT ![i] = Finish(reqs[i], 200)]
  /\ aux' = [aux EXCEPT
       !.reopens = IF tickets[1].status # "open" /\ tickets'[1].status = "open"
                     THEN @ + 1 ELSE @,
       !.respSinceStatus = IF StatusWritten(i) THEN FALSE ELSE @,
       !.clobbered = @ \/ (StatusWritten(i) /\ reqs[i].stale)]
  /\ UNCHANGED <<userVars, responses, nextTicket, clock, last>>

StartUpdate(i) ==
  \E actor \in Actors, body \in UpdateBodies :
    /\ Free(i)
    /\ reqs' = [reqs EXCEPT ![i] =
                  Started("update", UpdateValid(body),
                          UpdateDenied(actor, tickets[1]),
                          UpdatedTicket(actor, tickets[1], body, Now), "save")]
    /\ UNCHANGED <<userVars, ticketVars, last, aux>>

\* ticket.save() of the updated ticket.
UpdateSave(i) ==
  /\ reqs[i].kind = "update" /\ reqs[i].pc = "save"
  /\ tickets' = SaveDoc(tickets, 1, reqs[i].snap[1], reqs[i].doc[1])
  /\ reqs' = [(IF StatusWritten(i) THEN MarkStale(i) ELSE reqs)
                EXCEPT ![i] = Finish(reqs[i], 200)]
  /\ aux' = [aux EXCEPT
       !.reopens = IF tickets[1].status # "open" /\ tickets'[1].status = "open"
                     THEN @ + 1 ELSE @,
       !.respSinceStatus = IF StatusWritten(i) THEN FALSE ELSE @]
  /\ UNCHANGED <<userVars, responses, nextTicket, clock, last>>

\* A save() that rejects: the catch block answers 500, nothing is undone.
WriteFails(i) ==
  /\ InFlight(i)
  /\ reqs' = [reqs EXCEPT ![i] = Finish(reqs[i], 500)]
  /\ UNCHANGED <<userVars, ticketVars, last, aux>>

NextConc ==
  \E i \in Slots :
    \/ StartRespond(i) \/ RespondInsert(i) \/ RespondSave(i)
    \/ StartUpdate(i) \/ UpdateSave(i)
    \/ WriteFails(i)

SpecConc == InitConc /\ [][NextConc]_vars

\* ============================================ delete against add-response
\* DELETE /tickets/:id as the database sees it: findById and the checks, then
\* TicketResponse.deleteMany, then ticket.remove(); interleaved with
\* add-response requests on the same ticket.  Ticket 1 is stored with one
\* response.
InitDelete ==
  /\ users = SeedUsers
  /\ tokens = SeedTokens
  /\ orgs = SeedOrgs
  /\ nextUser = 6
  /\ plans = <<>>
  /\ subscriptions = {}
  /\ \E creator \in {2, 3}, s \in {"open", "resolved"} :
       /\ tickets = 1 :> [NewTicket(Payload(creator, SeedUsers[creator]),
                                    [title |-> "A", description |-> "A",
                                     category |-> "A", priority |-> Undefined])
                            EXCEPT !.status = s]
       /\ aux = [initStatus |-> s, reopens |-> 0, respSinceStatus |-> FALSE,
                 clobbered |-> FALSE]
       /\ responses = {NewResponse(Payload(creator, SeedUsers[creator]), 1,
                                   [content |-> "hi", isInternal |-> Undefined], 1)}
  /\ nextTicket = 2
  /\ clock = 1
  /\ last = NoRequest
  /\ reqs = [i \in Slots |-> Idle]

DeleteInFlight(i) == reqs[i].pc \in {"deleteMany", "remove"}

\* findById, then the checks of the add-response handler.
DelStartRespond(i) ==
  \E actor \in Actors, body \in {[content |-> "hi", isInternal |-> Undefined]} :
    /\ Free(i)
    /\ reqs' = [reqs EXCEPT ![i] =
         IF 1 \notin DOMAIN tickets
           THEN Finish([Idle EXCEPT !.kind = "respond"], 404)
           ELSE Started("respond", RespondValid(body),
                        RespondDenied(actor, tickets[1]),
                        NewResponse(actor, 1, body, Null), "insert")]
    /\ UNCHANGED <<userVars, ticketVars, last, aux>>

\* ticket.save() of the reopened ticket; when the ticket was removed since
\* findById the update matches no document, which save() reports as an error
\* or not, depending on the Mongoose version.
DelRespondSave(i) ==
  /\ reqs[i].kind = "respond" /\ reqs[i].pc = "save"
  /\ IF 1 \in DOMAIN tickets
       THEN /\ tickets' = SaveDoc(tickets, 1, reqs[i].snap[1], reqs[i].doc[1])
            /\ reqs' = [reqs EXCEPT ![i] = Finish(reqs[i], 200)]
       ELSE /\ tickets' = tickets
            /\ \E code \in {200, 500} :
                 reqs' = [reqs EXCEPT ![i] = Finish(reqs[i], code)]
  /\ UNCHANGED <<userVars, responses, nextTicket, clock, last, aux>>

\* authorize('admin'), findById and the organization test.
StartDelete(i) ==
  \E actor \in Actors :
    /\ Free(i)
    /\ reqs' = [reqs EXCEPT ![i] =
         LET rq == [Idle EXCEPT !.kind = "delete"]
         IN IF ~authorize({"admin"}, actor) THEN Finish(rq, 403)
            ELSE IF 1 \notin DOMAIN tickets THEN Finish(rq, 404)
            ELSE IF DeleteDenied(actor, tickets[1]) THEN Finish(rq, 403)
            ELSE [rq EXCEPT !.pc = "deleteMany", !.snap = <<tickets[1]>>]]
    /\ UNCHANGED <<userVars, ticketVars, last, aux>>

\* TicketResponse.deleteMany({ ticketId: ticket._id })
DeleteResponses(i) ==
  /\ reqs[i].kind = "delete" /\ reqs[i].pc = "deleteMany"
  /\ responses' = {r \in responses : r.ticketId # 1}
  /\ reqs' = [reqs EXCEPT ![i].pc = "remove"]
  /\ UNCHANGED <<userVars, tickets, nextTicket, clock, last, aux>>

\* ticket.remove()
RemoveTicket(i) ==
  /\ reqs[i].kind = "delete" /\ reqs[i].pc = "remove"
  /\ tickets' = Without(tickets, 1)
  /\ reqs' = [reqs EXCEPT ![i] = Finish(reqs[i], 200)]
  /\ UNCHANGED <<userVars, responses, nextTicket, clock, last, aux>>

\* deleteMany or remove rejects: the catch block answers 500, nothing is
\* undone.
DeleteFails(i) ==
  /\ DeleteInFlight(i)
  /\ reqs' = [reqs EXCEPT ![i] = Finish(reqs[i], 500)]
  /\ UNCHANGED <<userVars, ticketVars, last, aux>>

NextDelete ==
  \E i \in Slots :
    \/ DelStartRespond(i) \/ RespondInsert(i) \/ DelRespondSave(i)
    \/ StartDelete(i) \/ DeleteResponses(i) \/ RemoveTicket(i)
    \/ DeleteFails(i) \/ WriteFails(i)

SpecDelete == InitDelete /\ [][NextDelete]_vars

\* ============================================ concurrent subscription requests
\* POST /subscriptions/checkout (the path without Stripe) and POST
\* /subscriptions/cancel of organization 1 as the database sees them: each
\* await is one database operation.  The organization has no Stripe customer;
\* plan 1 is active and has no Stripe price.  Either nothing was subscribed
\* yet, or an earlier checkout left one active subscription.
SubActor == SeedTokens[1]

BasicPlan == [name |-> "Basic", isActive |-> TRUE, stripePriceId |-> Null]

ActiveOf(org) ==
  {s \in subscriptions : s.organizationId = org /\ s.status = "active"}

InitSub ==
  /\ users = SeedUsers
  /\ tokens = SeedTokens
  /\ nextUser = 6
  /\ plans = 1 :> BasicPlan
  /\ \/ /\ subscriptions = {}
        /\ orgs = SeedOrgs
     \/ /\ subscriptions = {NewSubscription(1, 1, 1)}
        /\ orgs = [SeedOrgs EXCEPT ![1] = Subscribed(@, BasicPlan)]
  /\ tickets = <<>>
  /\ responses = {}
  /\ nextTicket = 1
  /\ clock = 0
  /\ last = NoRequest
  /\ reqs = [i \in Slots |-> Idle]
  /\ aux = <<>>

\* Subscriptions stored or about to be inserted.
Pending ==
  Cardinality(subscriptions)
    + Cardinality({i \in Slots : reqs[i].pc \in {"cancelOld", "insert"}})

\* save() of an organization document: the paths that were assigned a value
\* other than the loaded one are written.
SaveOrg(o, snap, doc) ==
  [orgs EXCEPT ![o] =
     [f \in DOMAIN orgs[o] |-> IF doc[f] # snap[f] THEN doc[f] ELSE orgs[o][f]]]

\* checkout: the plan and the organization are loaded and tested.
StartCheckout(i) ==
  \E planId \in {Null, 1} :
    /\ Free(i)
    /\ Pending < MaxSubscriptions
    /\ LET rq == [Idle EXCEPT !.kind = "checkout"]
           org == SubActor.organizationId
       IN reqs' = [reqs EXCEPT ![i] =
            IF planId = Null THEN Finish(rq, 400)
            ELSE IF planId \notin DOMAIN plans \/ ~plans[planId].isActive
              THEN Finish(rq, 404)
            ELSE IF org \notin DOMAIN orgs THEN Finish(rq, 404)
            ELSE IF StripeConnected(SubActor) /\ plans[planId].stripePriceId # Null
              THEN Finish(rq, 200)
            ELSE [rq EXCEPT !.pc = "cancelOld", !.snap = <<orgs[org]>>,
                            !.doc = <<Subscribed(orgs[org], plans[planId])>>]]
    /\ UNCHANGED <<userVars, ticketVars, last, aux>>

\* Subscription.updateMany: the active subscriptions become cancelled.
CheckoutCancelOld(i) ==
  /\ reqs[i].kind = "checkout" /\ reqs[i].pc = "cancelOld"
  /\ subscriptions' = CancelledAll(subscriptions, SubActor.organizationId)
  /\ reqs' = [reqs EXCEPT ![i].pc = "insert"]
  /\ UNCHANGED <<users, tokens, orgs, nextUser, plans, ticketVars, last, aux>>

\* newSubscription.save()
CheckoutInsert(i) ==
  /\ reqs[i].kind = "checkout" /\ reqs[i].pc = "insert"
  /\ subscriptions' = subscriptions \cup
       {NewSubscription(SubActor.organizationId, 1, Cardinality(subscriptions) + 1)}
  /\ reqs' = [reqs EXCEPT ![i].pc = "saveOrg"]
  /\ UNCHANGED <<users, tokens, orgs, nextUser, plans, ticketVars, last, aux>>

\* organization.save(), of checkout and of cancel.
SaveOrganization(i) ==
  /\ reqs[i].pc = "saveOrg"
  /\ IF OrganizationValid(reqs[i].doc[1])
       THEN /\ orgs' = SaveOrg(SubActor.organizationId, reqs[i].snap[1],
                               reqs[i].doc[1])
            /\ reqs' = [reqs EXCEPT ![i] = Finish(reqs[i], 200)]
       ELSE /\ orgs' = orgs
            /\ reqs' = [reqs EXCEPT ![i] = Finish(reqs[i], 500)]
  /\ UNCHANGED <<users, tokens, nextUser, plans, subscriptions, ticketVars,
                 last, aux>>

\* cancel: Subscription.findOne of an active subscription.
StartCancel(i) ==
  /\ Free(i)
  /\ LET rq == [Idle EXCEPT !.kind = "cancel"]
         active == ActiveOf(SubActor.organizationId)
     IN reqs' = [reqs EXCEPT ![i] =
          IF active = {} THEN Finish(rq, 404)
          ELSE [rq EXCEPT !.pc = "saveSub",
                  !.rid = (CHOOSE s \in active : \A x \in active : s.id <= x.id).id]]
  /\ UNCHANGED <<userVars, ticketVars, last, aux>>

\* subscription.save() with status cancelled.
CancelSaveSub(i) ==
  /\ reqs[i].kind = "cancel" /\ reqs[i].pc = "saveSub"
  /\ subscriptions' = {IF s.id = reqs[i].rid THEN [s EXCEPT !.status = "cancelled"]
                       ELSE s : s \in subscriptions}
  /\ reqs' = [reqs EXCEPT ![i].pc = "findOrg"]
  /\ UNCHANGED <<users, tokens, orgs, nextUser, plans, ticketVars, last, aux>>

\* Organization.findById, and the assignment of the status.
CancelFindOrg(i) ==
  /\ reqs[i].kind = "cancel" /\ reqs[i].pc = "findOrg"
  /\ LET o == orgs[SubActor.organizationId]
     IN reqs' = [reqs EXCEPT ![i].pc = "saveOrg", ![i].snap = <<o>>,
                   ![i].doc = <<[o EXCEPT !.subscriptionStatus = "cancelled"]>>]
  /\ UNCHANGED <<userVars, ticketVars, last, aux>>

\* A write rejects: the catch block answers 500, nothing is undone.
SubWriteFails(i) ==
  /\ reqs[i].pc \in {"cancelOld", "insert", "saveOrg", "saveSub"}
  /\ reqs' = [reqs EXCEPT ![i] = Finish(reqs[i], 500)]
  /\ UNCHANGED <<userVars, ticketVars, last, aux>>

NextSub ==
  \E i \in Slots :
    \/ StartCheckout(i) \/ CheckoutCancelOld(i) \/ CheckoutInsert(i)
    \/ SaveOrganization(i)
    \/ StartCancel(i) \/ CancelSaveSub(i) \/ CancelFindOrg(i)
    \/ SubWriteFails(i)

SpecSub == InitSub /\ [][NextSub]_vars

\* ================================================================ claims
ByIdOps == {"get", "update", "respond", "delete"}

HasTarget == last.before # <<>>
Target == last.before[1]
CrossTenant == HasTarget /\ Target.organizationId # last.actor.organizationId
SameTenant == HasTarget /\ Target.organizationId = last.actor.organizationId

\* C1: a by-id request (get, update, add-response, delete) on a ticket of
\* another organization is never answered 200, returns nothing, and leaves
\* the ticket stored as it was, whatever the caller's role.
C1_TenantIsolation ==
  (last.op \in ByIdOps /\ CrossTenant)
    => /\ last.code \in {400, 403}
       /\ last.list = {} /\ last.rlist = <<>>
       /\ last.id \in DOMAIN tickets /\ tickets[last.id] = Target

C1_Witness ==
  /\ last.op = "delete" /\ last.actor.role = "admin"
  /\ CrossTenant /\ last.code = 403
  /\ last.id \in DOMAIN tickets

\* C2: without a status filter, the list answered to a customer holds exactly
\* the tickets of the customer's organization that the customer created; the
\* list answered to an admin or agent holds exactly the tickets of their
\* organization.
ExpectedList(actor) ==
  IF actor.role = "customer"
    THEN {t \in DOMAIN tickets :
            /\ tickets[t].createdBy = actor.id
            /\ tickets[t].organizationId = actor.organizationId}
    ELSE {t \in DOMAIN tickets : tickets[t].organizationId = actor.organizationId}

C2_CustomerReadScoping ==
  (last.op = "list" /\ last.arg = Undefined)
    => last.code = 200 /\ last.list = ExpectedList(last.actor)

C2_Witness ==
  /\ last.op = "list" /\ last.arg = Undefined /\ last.actor.role = "customer"
  /\ last.list = {}
  /\ \E t \in DOMAIN tickets :
       /\ tickets[t].organizationId = last.actor.organizationId
       /\ tickets[t].createdBy # last.actor.id

\* C3 (as claimed): a customer who fetches a ticket they created gets the
\* ticket's responses that are not internal, in creation order; an admin or
\* agent of the organization gets all of them.
RECURSIVE InCreationOrder(_)
InCreationOrder(s) ==
  Len(s) < 2 \/ (s[1].createdAt < s[2].createdAt /\ InCreationOrder(Tail(s)))

SeqRange(s) == {s[i] : i \in 1..Len(s)}

VisibleTo(actor, t) ==
  {r \in responses : r.ticketId = t /\ (actor.role = "customer" => ~r.isInternal)}

C3_InternalNoteRedaction ==
  (/\ last.op = "get" /\ SameTenant
   /\ last.actor.role = "customer" => Target.createdBy = last.actor.id)
    => /\ last.code = 200
       /\ SeqRange(last.rlist) = VisibleTo(last.actor, last.id)
       /\ Len(last.rlist) = Cardinality(VisibleTo(last.actor, last.id))
       /\ InCreationOrder(last.rlist)

\* C4: a response created on a resolved or archived ticket leaves the ticket
\* open with resolvedAt null, whoever wrote it and whatever the body says.
C4_ReopenOnResponse ==
  (last.op = "respond" /\ last.code = 200 /\ Target.status \in ClosedStatuses)
    => /\ last.id \in DOMAIN tickets
       /\ tickets[last.id].status = "open"
       /\ tickets[last.id].resolvedAt = Null

C4_Witness ==
  /\ last.op = "respond" /\ last.code = 200 /\ last.actor.role = "customer"
  /\ Target.status = "archived"
  /\ tickets[last.id].status = "open"
  /\ \E r \in responses : r.ticketId = last.id /\ r.userId = last.actor.id

\* C5 (as claimed): for every stored ticket, resolvedAt is set exactly when
\* the status is resolved.
C5_ResolvedTimestamp ==
  \A t \in DOMAIN tickets :
    (tickets[t].resolvedAt # Null) <=> (tickets[t].status = "resolved")

\* C6 (as claimed): after an admin or agent update that takes a ticket from a
\* status other than resolved to resolved, the stored resolvedAt is set.
C6_EnteringResolved ==
  (/\ last.op = "update" /\ last.code = 200 /\ last.actor.role \in StaffRoles
   /\ Target.status # "resolved" /\ last.arg = "resolved")
    => /\ tickets[last.id].status = "resolved"
       /\ tickets[last.id].resolvedAt # Null

\* C7: from a resolved ticket, once two (or more) concurrent add-response
\* requests and nothing else have all answered 200, the ticket is open with
\* resolvedAt null and its status changed to open exactly once, however the
\* requests' database operations interleaved.
Used == {i \in Slots : reqs[i].kind # "idle"}

OnlyRespondsDone ==
  /\ Cardinality(Used) >= 2
  /\ \A i \in Used :
       reqs[i].kind = "respond" /\ reqs[i].pc = "done" /\ reqs[i].code = 200

AllAnswered200 ==
  \A i \in Used : reqs[i].pc = "done" /\ reqs[i].code = 200

C8_ReopenNotLost ==
  /\ AllAnswered200
       => ~(tickets[1].status \in ClosedStatuses /\ aux.respSinceStatus)
  /\ ~aux.clobbered

\* C9 (as claimed): an add-response request on a resolved or archived ticket
\* that failed has not left its response stored with the ticket still
\* resolved or archived.
C9_AtomicResponseAndReopen ==
  \A i \in Used :
    (/\ reqs[i].kind = "respond" /\ reqs[i].pc = "done" /\ reqs[i].code = 500
     /\ reqs[i].snap[1].status \in ClosedStatuses)
      => ~(/\ \E r \in responses : r.id = reqs[i].rid
           /\ tickets[1].status \in ClosedStatuses)

\* C10: a delete request on a stored user whose parentUserId is null (the
\* admin who registered the organization) is never answered 200, whoever
\* sends it, and the user is stored afterwards exactly as before; so every
\* organization keeps the user that registered it.
C10_RootAdminUndeletable ==
  /\ (/\ last.op = "deleteUser" /\ HasTarget
      /\ Target.parentUserId = Null)
       => /\ last.code \in {400, 403}
          /\ last.id \in DOMAIN users
          /\ users[last.id] = Target
  /\ \A o \in DOMAIN orgs :
       \E u \in DOMAIN users :
         users[u].organizationId = o /\ users[u].parentUserId = Null

\* Another admin of the same organization asks, and is refused.
C10_Witness ==
  /\ last.op = "deleteUser" /\ HasTarget
  /\ Target.parentUserId = Null
  /\ last.actor.role = "admin" /\ last.actor.id # last.id
  /\ last.actor.organizationId = Target.organizationId
  /\ last.code = 400
  /\ last.id \in DOMAIN users

\* C11 (as claimed): the user that registered an organization (parentUserId
\* null, role admin) is active in every reachable state.
C11_RootAdminActive ==
  \A u \in DOMAIN users :
    (users[u].parentUserId = Null /\ users[u].role = "admin")
      => users[u].isActive

\* C12 (as claimed): no organization has more active users than its
\* maxUsers, and a create-subuser request that is answered 200 has not taken
\* its organization above that ceiling.
ActiveCount(o) ==
  Cardinality({u \in DOMAIN users :
                 users[u].organizationId = o /\ users[u].isActive})

C12_EntitlementGate ==
  /\ \A o \in DOMAIN orgs : ActiveCount(o) <= orgs[o].maxUsers
  /\ (last.op = "subuser" /\ last.code = 200)
       => ActiveCount(last.actor.organizationId)
            <= orgs[last.actor.organizationId].maxUsers

\* C13 (as claimed): every ticket's assignedTo is null or an existing admin
\* or agent of the ticket's organization; an update that names anyone else
\* is not answered 200 and leaves assignedTo as it was.
ValidAssignee(org, a) ==
  /\ a \in DOMAIN users
  /\ users[a].organizationId = org
  /\ users[a].role \in StaffRoles

C13_AssigneeValidity ==
  /\ \A t \in DOMAIN tickets :
       \/ tickets[t].assignedTo = Null
       \/ ValidAssignee(tickets[t].organizationId, tickets[t].assignedTo)
  /\ (/\ last.op = "update" /\ HasTarget
      /\ last.arg.assignedTo # Null
      /\ ~ValidAssignee(Target.organizationId, last.arg.assignedTo))
       => /\ last.code # 200
          /\ tickets[last.id].assignedTo = Target.assignedTo

\* C14: a customer's update of a ticket they created leaves status,
\* priority, assignedTo and resolvedAt as they were, whatever the body
\* carries; when the body passes the route's validators the request is
\* answered 200 and title, description and category are the body's where it
\* gives them; otherwise it is answered 400 and the ticket is unchanged.
CustomerOwnUpdate ==
  /\ last.op = "update" /\ SameTenant
  /\ last.actor.role = "customer"
  /\ Target.createdBy = last.actor.id

StaffFieldsKept ==
  /\ tickets[last.id].status = Target.status
  /\ tickets[last.id].priority = Target.priority
  /\ tickets[last.id].assignedTo = Target.assignedTo
  /\ tickets[last.id].resolvedAt = Target.resolvedAt

C14_CustomerUpdateRestricted ==
  CustomerOwnUpdate
    => /\ last.id \in DOMAIN tickets
       /\ StaffFieldsKept
       /\ tickets[last.id].createdBy = Target.createdBy
       /\ tickets[last.id].organizationId = Target.organizationId
       /\ IF UpdateValid(last.arg)
            THEN /\ last.code = 200
                 /\ tickets[last.id].title =
                      IF Given(last.arg.title) THEN last.arg.title ELSE Target.title
            ELSE last.code = 400 /\ tickets[last.id] = Target

C14_Witness ==
  /\ CustomerOwnUpdate /\ last.code = 200
  /\ last.arg.status = "resolved" /\ last.arg.assignedTo = 2
  /\ Target.status = "open" /\ tickets[last.id].status = "open"
  /\ Target.title = "A" /\ tickets[last.id].title = "B"

\* C14 (as claimed): every update by a customer of a ticket they created is
\* answered 200, whatever the body carries, with status, priority,
\* assignedTo and resolvedAt unchanged.
C14_AsClaimed ==
  CustomerOwnUpdate => last.code = 200 /\ StaffFieldsKept

\* C15 (as claimed): the response a request stores is internal only when its
\* author is an admin or agent and the request asked for isInternal true; a
\* customer's response is never stored internal.
C15_InternalFlagCoercion ==
  (last.op = "respond" /\ last.code = 200)
    => /\ last.actor.role = "customer" => ~last.rlist[1].isInternal
       /\ last.rlist[1].isInternal
            => last.actor.role \in StaffRoles /\ last.arg = "true"

\* C16: a ticket stored by a create request has the caller's id as
\* createdBy, the caller's organization, status open, and the body's
\* priority, or medium when the body gives none, whatever else the body
\* carries; a request answered otherwise stores nothing.
C16_CreateNotSpoofed ==
  last.op = "create"
    => IF last.code = 200
         THEN /\ last.id \in DOMAIN tickets
              /\ tickets[last.id].createdBy = last.actor.id
              /\ tickets[last.id].organizationId = last.actor.organizationId
              /\ tickets[last.id].status = "open"
              /\ tickets[last.id].priority =
                   IF last.arg.priority = Undefined THEN "medium"
                   ELSE last.arg.priority
              /\ tickets[last.id].priority \in Priorities
         ELSE last.code = 400 /\ last.id \notin DOMAIN tickets

C16_Witness ==
  /\ last.op = "create" /\ last.code = 200
  /\ last.actor.role = "customer"
  /\ last.arg.createdBy \notin {Null, last.actor.id}
  /\ last.arg.organizationId \notin {Null, last.actor.organizationId}
  /\ last.arg.status = "resolved" /\ last.arg.priority = "high"
  /\ tickets[last.id].createdBy = last.actor.id

\* C17 (as claimed): on a ticket of the caller's organization, a get-by-id,
\* update or add-response request with a well-formed body is refused access
\* (403, or the 500 of a failed access test) exactly when the caller is a
\* customer who did not create the ticket; otherwise it is answered 200.
C17_OwnerOnlyAccess ==
  (/\ last.op \in {"get", "update", "respond"} /\ SameTenant
   /\ last.code # 400)
    => (last.code \in {403, 500}
          <=> (last.actor.role = "customer"
                 /\ Target.createdBy # last.actor.id))

\* C18: a delete request on a stored ticket removes it, with its responses,
\* when the caller is an admin of the ticket's organization; from anyone
\* else it is answered 403 and the tickets and the responses stay as they
\* were.
C18_DeleteAdminOnly ==
  /\ []((last.op = "delete" /\ HasTarget)
          => IF last.actor.role = "admin" /\ SameTenant
               THEN /\ last.code = 200
                    /\ last.id \notin DOMAIN tickets
                    /\ ~\E r \in responses : r.ticketId = last.id
               ELSE /\ last.code = 403
                    /\ last.id \in DOMAIN tickets
                    /\ tickets[last.id] = Target)
  /\ [][(last'.op = "delete" /\ last'.code # 200)
          => (tickets' = tickets /\ responses' = responses)]_vars

\* An agent of the ticket's organization is refused; the ticket has a response.
C18_Witness ==
  /\ last.op = "delete" /\ SameTenant
  /\ last.actor.role = "agent" /\ last.code = 403
  /\ last.id \in DOMAIN tickets
  /\ \E r \in responses : r.ticketId = last.id

\* C19: a list, read, update, delete or create-subuser request on users
\* whose token carries the role agent or customer is answered 403 with no
\* data, and leaves the users and the organizations as they were.
UserOps == {"listUsers", "getUser", "updateUser", "deleteUser", "subuser"}

ByNonAdmin(l) == l.op \in UserOps /\ l.actor.role \in {"agent", "customer"}

C19_UserManagementAdminOnly ==
  /\ [](ByNonAdmin(last) => last.code = 403 /\ last.list = {})
  /\ [][ByNonAdmin(last')
          => (users' = users /\ orgs' = orgs /\ nextUser' = nextUser)]_vars

\* An agent asks to promote themselves.
C19_Witness ==
  /\ last.op = "updateUser" /\ last.actor.role = "agent"
  /\ last.id = last.actor.id /\ last.code = 403
  /\ last.id \in DOMAIN users /\ users[last.id].role = "agent"

\* C20: the list answered to an admin holds exactly the users of the admin's
\* organization; a read, update or delete by id of a user of another
\* organization is not answered 200, returns nothing and leaves that user as
\* stored; a user created by a subuser request has the caller's organization.
C20_UserTenantIsolation ==
  /\ (last.op = "listUsers" /\ last.actor.role = "admin")
       => /\ last.code = 200
          /\ last.list = {u \in DOMAIN users :
                            users[u].organizationId = last.actor.organizationId}
  /\ (last.op \in {"getUser", "updateUser", "deleteUser"} /\ CrossTenant)
       => /\ last.code \in {400, 403}
          /\ last.list = {}
          /\ last.id \in DOMAIN users /\ users[last.id] = Target
  /\ (last.op = "subuser" /\ last.code = 200)
       => /\ last.id \in DOMAIN users
          /\ users[last.id].organizationId = last.actor.organizationId
          /\ users[last.id].parentUserId = last.actor.id

\* An admin asks to change a user of another organization.
C20_Witness ==
  /\ last.op = "updateUser" /\ CrossTenant
  /\ last.actor.role = "admin" /\ last.code = 403
  /\ users[last.id] = Target

\* The caller's row of the users table, in the serverless function.
FnCaller == users[last.actor]

\* C21 (as claimed): in the serverless tickets function a get-by-id, update,
\* add-response or delete request on a ticket of another organization than
\* the caller's is not answered 200 or 201 and writes nothing, and a ticket
\* that a create request stores has the caller as created_by and the
\* caller's organization as organization_id.
C21_ServerlessTenantIsolation ==
  /\ (/\ last.op \in {"get", "update", "respond", "delete"}
      /\ last.before # <<>>
      /\ last.before[1].organization_id # FnCaller.organizationId)
       => /\ last.code \notin {200, 201}
          /\ last.id \in DOMAIN tickets /\ tickets[last.id] = last.before[1]
  /\ (last.op = "create" /\ last.code = 201)
       => /\ tickets[last.id].created_by = last.actor
          /\ tickets[last.id].organization_id = FnCaller.organizationId

\* C22 (as claimed): in the serverless tickets function the ticket a
\* customer fetches by id carries no response with is_internal = TRUE, and
\* no stored response created by a customer has is_internal = TRUE.
C22_ServerlessInternalNotes ==
  /\ (last.op = "get" /\ last.code = 200 /\ FnCaller.role = "customer")
       => \A r \in last.data[1].ticket_responses : ~r.is_internal
  /\ \A r \in responses :
       users[r.created_by].role = "customer" => ~r.is_internal

\* An id that belongs to no ticket: create stops at MaxTickets.
NoTicketId == MaxTickets + 1

\* The answers (status code and body) the last by-id request could get for an
\* id that belongs to no ticket, from the same caller with the same argument.
AnswersForNoTicket ==
  LET shown(res) == <<res.code, res.list, res.rlist>>
  IN CASE last.op = "get" ->
            {shown(GetTicketById(last.actor, NoTicketId))}
       [] last.op = "update" ->
            {shown(UpdateTicket(last.actor, NoTicketId, b)) :
               b \in {x \in UpdateBodies : x.status = last.arg}}
       [] last.op = "respond" ->
            {shown(AddResponse(last.actor, NoTicketId, b)) :
               b \in {x \in RespondBodies : x.isInternal = last.arg}}
       [] last.op = "delete" ->
            {shown(DeleteTicket(last.actor, NoTicketId))}

\* C23 (as claimed): a get-by-id, update, add-response or delete request on a
\* ticket of another organization than the caller's is answered as the same
\* request is for an id that belongs to no ticket.
C23_NoExistenceLeak ==
  (last.op \in ByIdOps /\ CrossTenant)
    => <<last.code, last.list, last.rlist>> \in AnswersForNoTicket

\* C24: an admin's or agent's update that carries one of the six statuses,
\* on a ticket of their organization in any status, is answered 200 and
\* leaves the ticket in the status asked for; an update that carries a
\* status outside the six is answered 400 and leaves the ticket as it was.
C24_FlatStatusTransitions ==
  /\ (/\ last.op = "update" /\ SameTenant
      /\ last.actor.role \in StaffRoles /\ last.arg \in Statuses)
       => /\ last.code = 200
          /\ tickets[last.id].status = last.arg
  /\ (/\ last.op = "update" /\ HasTarget
      /\ last.arg \notin Statuses \cup {Undefined})
       => /\ last.code = 400
          /\ tickets[last.id] = Target

\* An agent moves an archived ticket of their organization to in_progress.
C24_Witness ==
  /\ last.op = "update" /\ SameTenant /\ last.actor.role = "agent"
  /\ Target.status = "archived" /\ last.arg = "in_progress"
  /\ last.code = 200 /\ tickets[last.id].status = "in_progress"

StoresUnchanged ==
  UNCHANGED <<users, tokens, orgs, tickets, responses, plans, subscriptions>>

\* C26: a request without a token, or with a token that does not verify,
\* to any ticket, user, admin or subscription route that lists the auth
\* middleware is answered 401 before its handler is entered and leaves every
\* collection as it was.  The Stripe webhook lists no auth middleware: it is
\* answered 400 with every collection unchanged when the Stripe signature
\* does not verify, whatever token comes with it.
C26_FailsClosed ==
  /\ []((last.op \in AuthRoutes /\ last.cred # "valid")
          => (last.code = 401 /\ ~last.ran))
  /\ [][(last'.op \in AuthRoutes /\ last'.cred # "valid")
          => StoresUnchanged]_vars
  /\ [][(last'.op = WebhookRoute /\ last'.code = 400) => StoresUnchanged]_vars

\* DELETE /tickets/:id with a token that does not verify was answered 401
\* while a ticket, a plan and a subscription were stored.
C26_Witness ==
  /\ last.op = "DELETE /tickets/:id" /\ last.cred = "invalid"
  /\ last.code = 401 /\ ~last.ran
  /\ 1 \in DOMAIN tickets /\ plans # <<>> /\ subscriptions # {}

\* C26 as claimed: every request without a valid token to a ticket, user,
\* admin or subscription route, the webhook among them, is rejected before
\* its handler is entered.
C26_AsClaimed ==
  (last.op \in AuthRoutes \cup {WebhookRoute} /\ last.cred # "valid")
    => (last.code = 401 /\ ~last.ran)

\* C27: a ticket update, add-response or delete request that is refused
\* (403: another organization's ticket, a customer who did not create it, a
\* role that may not delete) or fails validation (400) leaves the tickets,
\* the responses and every other collection as they were.
C27_DeniedHasNoEffect ==
  [][(last'.op \in {"update", "respond", "delete"} /\ last'.code \in {400, 403})
       => /\ tickets' = tickets /\ responses' = responses
          /\ users' = users /\ orgs' = orgs /\ tokens' = tokens
          /\ plans' = plans /\ subscriptions' = subscriptions]_vars

\* A customer's response to a resolved ticket of another organization was
\* refused; the ticket is still resolved and has the one response it had.
C27_Witness ==
  /\ last.op = "respond" /\ last.code = 403 /\ CrossTenant
  /\ last.actor.role = "customer"
  /\ Target.status = "resolved"
  /\ tickets[last.id] = Target
  /\ Cardinality({r \in responses : r.ticketId = last.id}) = 1

\* C28 (as claimed): in every reachable state each organization has a user
\* with the role admin, and the user that registered it (parentUserId null)
\* has the role admin.
C28_OrganizationKeepsAdmin ==
  /\ \A o \in DOMAIN orgs :
       \E u \in DOMAIN users :
         users[u].organizationId = o /\ users[u].role = "admin"
  /\ \A u \in DOMAIN users :
       users[u].parentUserId = Null => users[u].role = "admin"

Quiet == \A i \in Slots : reqs[i].pc \in {"idle", "done"}

\* C29 (as claimed): with no request in flight, once ticket 1 is removed no
\* stored response references it, and while ticket 1 is stored after a
\* delete request was answered 500 the response it had is still stored.
C29_NoOrphanResponses ==
  Quiet =>
    /\ 1 \notin DOMAIN tickets => ~\E r \in responses : r.ticketId = 1
    /\ (/\ 1 \in DOMAIN tickets
        /\ \E i \in Slots : reqs[i].kind = "delete" /\ reqs[i].code = 500)
         => \E r \in responses : r.ticketId = 1 /\ r.id = 1

\* C30 (as claimed): organization 1 never has two subscriptions with status
\* active, and with no request in flight its subscriptionStatus is active
\* exactly when it has an active subscription.
C30_SingleActiveSubscription ==
  /\ Cardinality(ActiveOf(1)) <= 1
  /\ Quiet => (orgs[1].subscriptionStatus = "active" <=> ActiveOf(1) # {})

====
